---- MODULE Spec2Model ----
(***************************************************************************)
(* Model of the asynchronous task core of src/main.py: the registry        *)
(* processing_tasks, the background run process_pdf_async with the page    *)
(* and image loop of extract_images_from_pdf_and_analyze, and the HTTP     *)
(* handlers over the registry.                                             *)
(*                                                                         *)
(* Scheduling.  Every handler and every background run is a coroutine of   *)
(* one event loop: a coroutine that runs keeps the loop until it awaits.   *)
(* `running` is the task whose run holds the loop, 0 when none does.  A    *)
(* request handler has no await that suspends and is one step, taken while *)
(* no run holds the loop.  A run takes the loop when one of its awaits     *)
(* returns, then executes statement by statement (one step per page, per   *)
(* image, per progress write) with nothing interleaved, and gives the loop *)
(* back at its next await.  The awaits of the run are pdf_file.read()      *)
(* (line 123), the image description call (line 189) and the summarization *)
(* call (line 384); each is taken as a point where the loop may serve      *)
(* other requests and other runs.                                          *)
(*                                                                         *)
(* Inputs.  What the document libraries and the model runtime return is    *)
(* chosen when the code asks for it: whether the document opens, its page  *)
(* count, the number of images of a page, how an image extracts (RGB or    *)
(* gray, four or more colour components, or an extraction error), and      *)
(* whether a model call succeeds.                                          *)
(***************************************************************************)
EXTENDS Integers, Sequences, FiniteSets, TLC

\* Bounds of the model.
MaxTasks == 1        \* task ids uuid4 hands out
MaxPages == 3        \* pages of a document
MaxImages == 1       \* images of a document, over all its pages

TaskIds == 1 .. MaxTasks
\* Ids a client may put in a URL: every task id and one id never handed out.
RequestIds == 0 .. MaxTasks
\* The index in `run` of the synchronous request POST /pdf/analyze, which has
\* no task id (task_id = None, line 120 and 316).
SyncRun == MaxTasks + 1

VARIABLES
    processing_tasks,   \* the registry: task id -> task record (main.py:33)
    run,                \* per task id: position and locals of its background run;
                        \* at SyncRun: those of the synchronous request
    running,            \* the task whose run holds the event loop, 0 when none
    response            \* the HTTP response being sent, NoResponse when none

vars == <<processing_tasks, run, running, response>>

\* Optional[T]: None, or one value.
None == <<>>
Some(x) == <<x>>

NoResponse == [op |-> "none", task_id |-> 0, code |-> 0]
Response(op, task_id, code) == [op |-> op, task_id |-> task_id, code |-> code]

Terminal == {"completed", "failed", "cancelled"}

\* str(e) of the three exceptions that can reach line 403.
ErrCancelled == "Task was cancelled"
ErrExtract == "400: Failed to extract and analyze PDF"
ErrSummarize == "500: Failed to analyze text with Ollama"

\* all_text, by what it holds: page markers (line 146), images announced by
\* the per-page header (line 166), sections with a description (line 190 with
\* a successful call) and sections that note a failure (line 190 with the
\* failure text of line 223, or line 195).
EmptyText == [pages |-> 0, images |-> 0, described |-> 0, failed |-> 0]

\* Position and locals of a run.  pc is "none" (id not handed out), "queued"
\* (background task added), "reading" (await of line 123), "page" (head of the
\* page loop, line 136), "image" (head of the image loop, line 168),
\* "describing" (await of line 189), "check" (line 376), "summarizing" (await
\* of line 384), "returned", or "raised" (an exception left the run).
Locals(pc) ==
    [pc |-> pc, page_count |-> 0, page_num |-> 0, image_list |-> 0,
     img_index |-> 0, all_text |-> EmptyText]

\* PageProgress counting the pages that remain instead of the pages done.
PageProgress_Remaining(page_num, page_count) ==
    10 + (60 * (page_count - page_num)) \div page_count

\* int(10 + (page_num / page_count) * 60), line 142-143.  The float
\* expression and this integer one agree for all page counts up to 8.
PageProgress(page_num, page_count) == 10 + (60 * page_num) \div page_count

\* ImgProgress with the image share of the range taken as 30.
ImgProgress_Span30(page_num, page_count, img_index, n) ==
    70 + (30 * ((page_num - 1) * n + img_index + 1)) \div (n * page_count)

\* int(70 + ((page_num - 1) / page_count
\*           + (img_index + 1) / len(image_list) / page_count) * 20), line 174-175.
\* Agrees with the float expression for up to 8 pages and 8 images a page.
ImgProgress(page_num, page_count, img_index, n) ==
    70 + (20 * ((page_num - 1) * n + img_index + 1)) \div (n * page_count)

\* processing_tasks.get(task_id, {}).get("status") == "cancelled"
IsCancelled(t) ==
    t \in DOMAIN processing_tasks /\ processing_tasks[t].status = "cancelled"

\* HandleException with the error left out of the update.
HandleException_NoError(t, err) ==
    /\ IF t \in DOMAIN processing_tasks
       THEN /\ processing_tasks' =
                  [processing_tasks EXCEPT ![t].status = "failed",
                                           ![t].progress = 0,
                                           ![t].current_step = <<"failed">>]
            /\ run' = [run EXCEPT ![t] = Locals("returned")]
       ELSE /\ UNCHANGED processing_tasks
            /\ run' = [run EXCEPT ![t] = Locals("raised")]
    /\ running' = 0

\* except Exception as e: processing_tasks[task_id].update({...}), line 403-409,
\* for an exception with str(e) = err.  With the task absent the update raises
\* KeyError out of the run.
HandleException(t, err) ==
    /\ IF t \in DOMAIN processing_tasks
       THEN /\ processing_tasks' =
                  [processing_tasks EXCEPT ![t].status = "failed",
                                           ![t].progress = 0,
                                           ![t].current_step = <<"failed">>,
                                           ![t].error = Some(err)]
            /\ run' = [run EXCEPT ![t] = Locals("returned")]
       ELSE /\ UNCHANGED processing_tasks
            /\ run' = [run EXCEPT ![t] = Locals("raised")]
    /\ running' = 0

\* WriteProgress creating the entry it does not find, as
\* processing_tasks.setdefault(task_id, {}) would.
WriteProgress_Recreate(t, step, progress, loc) ==
    /\ processing_tasks' =
           [x \in DOMAIN processing_tasks \cup {t} |->
               IF x # t THEN processing_tasks[x]
               ELSE IF t \in DOMAIN processing_tasks
               THEN [processing_tasks[t] EXCEPT !.current_step = step,
                                                !.progress = progress]
               ELSE [task_id |-> t, status |-> "processing", progress |-> progress,
                     current_step |-> step, result |-> None, error |-> None,
                     filename |-> "file.pdf", model |-> "gemma3:4b"]]
    /\ run' = [run EXCEPT ![t] = loc]
    /\ running' = IF loc.pc \in {"describing", "summarizing"} THEN 0 ELSE t

\* processing_tasks[task_id]["current_step"] = step; ["progress"] = progress
\* inside extract_images_from_pdf_and_analyze, after which the run is at loc.
\* With the task absent the subscript raises KeyError, which line 207-210
\* turn into an HTTPException.
WriteProgress(t, step, progress, loc) ==
    IF t \notin DOMAIN processing_tasks
    THEN HandleException(t, ErrExtract)
    ELSE /\ processing_tasks' =
               [processing_tasks EXCEPT ![t].current_step = step,
                                        ![t].progress = progress]
         /\ run' = [run EXCEPT ![t] = loc]
         /\ running' = IF loc.pc \in {"describing", "summarizing"} THEN 0 ELSE t

\* The locals after the image at img_index is done: the next image of the
\* page, or the head of the page loop.
ImageDone(loc) ==
    IF loc.img_index + 1 < loc.image_list
    THEN [loc EXCEPT !.pc = "image", !.img_index = @ + 1]
    ELSE [loc EXCEPT !.pc = "page", !.img_index = 0, !.image_list = 0]

Init ==
    /\ processing_tasks = <<>>
    /\ run = [t \in TaskIds \cup {SyncRun} |-> Locals("none")]
    /\ running = 0
    /\ response = NoResponse

\* A request handler runs when no run holds the loop and no response is
\* being sent.
LoopFree == running = 0 /\ response = NoResponse

\* POST /pdf/analyze-async, lines 336-368.
analyze_pdf_async ==
    /\ LoopFree
    /\ UNCHANGED running
    /\ \E isPdf \in BOOLEAN :
        IF ~isPdf
        THEN /\ response' = Response("analyze_async", 0, 400)
             /\ UNCHANGED <<processing_tasks, run>>
        ELSE \E task_id \in TaskIds :
                /\ run[task_id].pc = "none"
                /\ \A u \in TaskIds : u < task_id => run[u].pc # "none"
                /\ processing_tasks' =
                       [x \in DOMAIN processing_tasks \cup {task_id} |->
                           IF x = task_id
                           THEN [task_id |-> task_id,
                                 status |-> "processing",
                                 progress |-> 0,
                                 current_step |-> <<"start">>,
                                 result |-> None,
                                 error |-> None,
                                 filename |-> "file.pdf",
                                 model |-> "gemma3:4b"]
                           ELSE processing_tasks[x]]
                /\ run' = [run EXCEPT ![task_id] = Locals("queued")]
                /\ response' = Response("analyze_async", task_id, 200)

\* GET /tasks/{task_id}/status, lines 412-417.
get_task_status(task_id) ==
    /\ LoopFree
    /\ response' = Response("status", task_id,
                            IF task_id \in DOMAIN processing_tasks THEN 200 ELSE 404)
    /\ UNCHANGED <<processing_tasks, run, running>>

\* cancel_task with "cancelled" missing from the list of line 425.
cancel_task_CancelTwice(task_id) ==
    /\ running = 0 /\ response = NoResponse
    /\ UNCHANGED <<run, running>>
    /\ IF task_id \notin DOMAIN processing_tasks
       THEN /\ response' = Response("cancel", task_id, 404)
            /\ UNCHANGED processing_tasks
       ELSE IF processing_tasks[task_id].status \in {"completed", "failed"}
       THEN /\ response' = Response("cancel", task_id, 400)
            /\ UNCHANGED processing_tasks
       ELSE /\ processing_tasks' =
                  [processing_tasks EXCEPT ![task_id].status = "cancelled",
                                           ![task_id].current_step = <<"cancelled">>]
            /\ response' = Response("cancel", task_id, 200)

\* cancel_task with "failed" missing from the list of line 425.
cancel_task_CancelFailed(task_id) ==
    /\ running = 0 /\ response = NoResponse
    /\ UNCHANGED <<run, running>>
    /\ IF task_id \notin DOMAIN processing_tasks
       THEN /\ response' = Response("cancel", task_id, 404)
            /\ UNCHANGED processing_tasks
       ELSE IF processing_tasks[task_id].status \in {"completed", "cancelled"}
       THEN /\ response' = Response("cancel", task_id, 400)
            /\ UNCHANGED processing_tasks
       ELSE /\ processing_tasks' =
                  [processing_tasks EXCEPT ![task_id].status = "cancelled",
                                           ![task_id].current_step = <<"cancelled">>]
            /\ response' = Response("cancel", task_id, 200)

\* cancel_task that also resets the progress of the task it cancels.
cancel_task_ResetProgress(task_id) ==
    /\ running = 0 /\ response = NoResponse
    /\ UNCHANGED <<run, running>>
    /\ IF task_id \notin DOMAIN processing_tasks
       THEN /\ response' = Response("cancel", task_id, 404)
            /\ UNCHANGED processing_tasks
       ELSE IF processing_tasks[task_id].status \in {"completed", "failed", "cancelled"}
       THEN /\ response' = Response("cancel", task_id, 400)
            /\ UNCHANGED processing_tasks
       ELSE /\ processing_tasks' =
                  [processing_tasks EXCEPT ![task_id].status = "cancelled",
                                           ![task_id].current_step = <<"cancelled">>,
                                           ![task_id].progress = 0]
            /\ response' = Response("cancel", task_id, 200)

\* POST /tasks/{task_id}/cancel, lines 420-431.
cancel_task(task_id) ==
    /\ LoopFree
    /\ UNCHANGED <<run, running>>
    /\ IF task_id \notin DOMAIN processing_tasks
       THEN /\ response' = Response("cancel", task_id, 404)
            /\ UNCHANGED processing_tasks
       ELSE IF processing_tasks[task_id].status \in {"completed", "failed", "cancelled"}
       THEN /\ response' = Response("cancel", task_id, 400)
            /\ UNCHANGED processing_tasks
       ELSE /\ processing_tasks' =
                  [processing_tasks EXCEPT ![task_id].status = "cancelled",
                                           ![task_id].current_step = <<"cancelled">>]
            /\ response' = Response("cancel", task_id, 200)

\* GET /tasks, lines 434-436.
get_all_tasks ==
    /\ LoopFree
    /\ response' = Response("tasks", 0, 200)
    /\ UNCHANGED <<processing_tasks, run, running>>

\* delete_task without the membership test of line 441, as
\* processing_tasks.pop(task_id, None) would behave.
delete_task_NoCheck(task_id) ==
    /\ running = 0 /\ response = NoResponse
    /\ UNCHANGED <<run, running>>
    /\ processing_tasks' =
           [x \in DOMAIN processing_tasks \ {task_id} |-> processing_tasks[x]]
    /\ response' = Response("delete", task_id, 200)

\* DELETE /tasks/{task_id}, lines 439-445.
delete_task(task_id) ==
    /\ LoopFree
    /\ UNCHANGED <<run, running>>
    /\ IF task_id \notin DOMAIN processing_tasks
       THEN /\ response' = Response("delete", task_id, 404)
            /\ UNCHANGED processing_tasks
       ELSE /\ processing_tasks' =
                  [x \in DOMAIN processing_tasks \ {task_id} |-> processing_tasks[x]]
            /\ response' = Response("delete", task_id, 200)

\* The response of a handler (its return value or its HTTPException) is sent
\* before the loop runs anything else of the model.
send_response ==
    /\ response # NoResponse
    /\ response' = NoResponse
    /\ UNCHANGED <<processing_tasks, run, running>>

\* The background task starts and awaits pdf_file.read(), lines 371-374, 121-123.
process_pdf_async(t) ==
    /\ LoopFree
    /\ run[t].pc = "queued"
    /\ run' = [run EXCEPT ![t] = Locals("reading")]
    /\ UNCHANGED <<processing_tasks, running, response>>

\* The read returns and the document is opened, lines 123-135.  A document
\* that fitz or pdfplumber cannot open raises into line 207.
open_document(t) ==
    /\ LoopFree
    /\ run[t].pc = "reading"
    /\ UNCHANGED response
    /\ \E opens \in BOOLEAN :
          IF ~opens
          THEN HandleException(t, ErrExtract)
          ELSE \E page_count \in 1 .. MaxPages :
                  WriteProgress(t, <<"loaded", page_count>>, 10,
                                [Locals("page") EXCEPT !.page_count = page_count])

\* One iteration of the page loop up to the image loop, lines 136-166.
extract_page(t) ==
    /\ running = t
    /\ run[t].pc = "page"
    /\ run[t].page_num < run[t].page_count
    /\ UNCHANGED response
    /\ IF IsCancelled(t)
       THEN HandleException(t, ErrCancelled)
       ELSE \E n \in 0 .. (MaxImages - run[t].all_text.images) :
               LET p == run[t].page_num + 1
               IN  WriteProgress(t, <<"page", p, run[t].page_count>>,
                                 PageProgress(p, run[t].page_count),
                                 [run[t] EXCEPT !.pc = IF n > 0 THEN "image" ELSE "page",
                                                !.page_num = p,
                                                !.image_list = n,
                                                !.img_index = 0,
                                                !.all_text.pages = @ + 1,
                                                !.all_text.images = @ + n])

\* One iteration of the image loop up to the description call, lines 168-187
\* and 192-195.
extract_image(t) ==
    /\ running = t
    /\ run[t].pc = "image"
    /\ UNCHANGED response
    /\ IF IsCancelled(t)
       THEN HandleException(t, ErrCancelled)
       ELSE \E kind \in {"rgb", "cmyk", "error"} :
               WriteProgress(t,
                   <<"image", run[t].page_num, run[t].img_index + 1, run[t].image_list>>,
                   ImgProgress(run[t].page_num, run[t].page_count,
                               run[t].img_index, run[t].image_list),
                   CASE kind = "rgb" ->     \* pix.n - pix.alpha < 4: the call of line 189
                            [run[t] EXCEPT !.pc = "describing"]
                     [] kind = "cmyk" ->    \* line 183 is false: nothing is appended
                            ImageDone(run[t])
                     [] kind = "error" ->   \* lines 180-186 raise: line 195
                            ImageDone([run[t] EXCEPT !.all_text.failed = @ + 1]))

\* The description call returns, lines 213-223 and 190-192.  A failed call
\* returns its failure text, which line 190 appends as the image's section.
analyze_image_with_ollama(t) ==
    /\ LoopFree
    /\ run[t].pc = "describing"
    /\ UNCHANGED <<processing_tasks, response>>
    /\ running' = t
    /\ \E ok \in BOOLEAN :
          run' = [run EXCEPT ![t] =
                     ImageDone(IF ok
                               THEN [run[t] EXCEPT !.all_text.described = @ + 1]
                               ELSE [run[t] EXCEPT !.all_text.failed = @ + 1])]

\* After the last page, lines 199-205.
finish_extraction(t) ==
    /\ running = t
    /\ run[t].pc = "page"
    /\ run[t].page_num = run[t].page_count
    /\ UNCHANGED response
    /\ WriteProgress(t, <<"extracted">>, 90,
                     [run[t] EXCEPT !.pc = "check", !.page_num = 0])

\* start_analysis without the cancellation check of line 377.
start_analysis_NoCheck(t) ==
    /\ running = t
    /\ run[t].pc = "check"
    /\ UNCHANGED response
    /\ IF t \notin DOMAIN processing_tasks
       THEN /\ run' = [run EXCEPT ![t] = Locals("raised")]
            /\ running' = 0
            /\ UNCHANGED processing_tasks
       ELSE /\ processing_tasks' =
                  [processing_tasks EXCEPT ![t].current_step = <<"ai">>,
                                           ![t].progress = 90]
            /\ run' = [run EXCEPT ![t].pc = "summarizing"]
            /\ running' = 0

\* start_analysis that, finding the task cancelled, gives up the loop
\* without returning.
start_analysis_Hang(t) ==
    /\ running = t
    /\ run[t].pc = "check"
    /\ UNCHANGED response
    /\ IF IsCancelled(t)
       THEN /\ running' = 0
            /\ UNCHANGED <<processing_tasks, run>>
       ELSE IF t \notin DOMAIN processing_tasks
       THEN HandleException(t, ErrExtract)
       ELSE /\ processing_tasks' =
                  [processing_tasks EXCEPT ![t].current_step = <<"ai">>,
                                           ![t].progress = 90]
            /\ run' = [run EXCEPT ![t].pc = "summarizing"]
            /\ running' = 0

\* The cancellation check after extraction and the start of the
\* summarization call, lines 376-384.
start_analysis(t) ==
    /\ running = t
    /\ run[t].pc = "check"
    /\ UNCHANGED response
    /\ IF IsCancelled(t)
       THEN /\ run' = [run EXCEPT ![t] = Locals("returned")]
            /\ running' = 0
            /\ UNCHANGED processing_tasks
       ELSE IF t \notin DOMAIN processing_tasks
       THEN HandleException(t, ErrExtract)     \* KeyError at line 380
       ELSE /\ processing_tasks' =
                  [processing_tasks EXCEPT ![t].current_step = <<"ai">>,
                                           ![t].progress = 90]
            /\ run' = [run EXCEPT ![t].pc = "summarizing"]
            /\ running' = 0

\* analyze_text_with_ollama with "result" left out of the update of line 396.
analyze_text_with_ollama_NoResult(t) ==
    /\ running = 0 /\ response = NoResponse
    /\ run[t].pc = "summarizing"
    /\ UNCHANGED response
    /\ \E ok \in BOOLEAN :
         IF ~ok
         THEN HandleException(t, ErrSummarize)
         ELSE IF t \notin DOMAIN processing_tasks
         THEN HandleException(t, ErrExtract)
         ELSE /\ processing_tasks' =
                    [processing_tasks EXCEPT
                        ![t].status = "completed",
                        ![t].progress = 100,
                        ![t].current_step = <<"complete">>]
              /\ run' = [run EXCEPT ![t] = Locals("returned")]
              /\ running' = 0

\* analyze_text_with_ollama with "progress" left out of the update of line 396.
analyze_text_with_ollama_NoProgress(t) ==
    /\ running = 0 /\ response = NoResponse
    /\ run[t].pc = "summarizing"
    /\ UNCHANGED response
    /\ \E ok \in BOOLEAN :
         IF ~ok
         THEN HandleException(t, ErrSummarize)
         ELSE IF t \notin DOMAIN processing_tasks
         THEN HandleException(t, ErrExtract)
         ELSE /\ processing_tasks' =
                    [processing_tasks EXCEPT
                        ![t].status = "completed",
                        ![t].current_step = <<"complete">>,
                        ![t].result = Some([filename |-> processing_tasks[t].filename,
                                            text_content |-> run[t].all_text,
                                            analysis |-> "analysis",
                                            model_used |-> processing_tasks[t].model,
                                            page_count |-> run[t].page_count,
                                            task_id |-> t])]
              /\ run' = [run EXCEPT ![t] = Locals("returned")]
              /\ running' = 0

\* The summarization call returns, lines 289-299 and 384-409.
analyze_text_with_ollama(t) ==
    /\ LoopFree
    /\ run[t].pc = "summarizing"
    /\ UNCHANGED response
    /\ \E ok \in BOOLEAN :
         IF ~ok
         THEN HandleException(t, ErrSummarize)
         ELSE IF t \notin DOMAIN processing_tasks
         THEN HandleException(t, ErrExtract)    \* KeyError at line 396
         ELSE /\ processing_tasks' =
                    [processing_tasks EXCEPT
                        ![t].status = "completed",
                        ![t].progress = 100,
                        ![t].current_step = <<"complete">>,
                        ![t].result = Some([filename |-> processing_tasks[t].filename,
                                            text_content |-> run[t].all_text,
                                            analysis |-> "analysis",
                                            model_used |-> processing_tasks[t].model,
                                            page_count |-> run[t].page_count,
                                            task_id |-> t])]
              /\ run' = [run EXCEPT ![t] = Locals("returned")]
              /\ running' = 0

Next ==
    \/ analyze_pdf_async
    \/ \E task_id \in RequestIds : get_task_status(task_id)
    \/ \E task_id \in RequestIds : cancel_task(task_id)
    \/ get_all_tasks
    \/ \E task_id \in RequestIds : delete_task(task_id)
    \/ send_response
    \/ \E t \in TaskIds : process_pdf_async(t)
    \/ \E t \in TaskIds : open_document(t)
    \/ \E t \in TaskIds : extract_page(t)
    \/ \E t \in TaskIds : extract_image(t)
    \/ \E t \in TaskIds : analyze_image_with_ollama(t)
    \/ \E t \in TaskIds : finish_extraction(t)
    \/ \E t \in TaskIds : start_analysis(t)
    \/ \E t \in TaskIds : analyze_text_with_ollama(t)

Spec == Init /\ [][Next]_vars

\* One step of the background run of task t, lines 371-409.
RunStep(t) ==
    \/ process_pdf_async(t)
    \/ open_document(t)
    \/ extract_page(t)
    \/ extract_image(t)
    \/ analyze_image_with_ollama(t)
    \/ finish_extraction(t)
    \/ start_analysis(t)
    \/ analyze_text_with_ollama(t)

\* The event loop sends every response and resumes every run whose await
\* is over; each model call returns.  A run waiting for the loop is resumed
\* although requests keep arriving in between, hence strong fairness.
SpecFair ==
    /\ Spec
    /\ WF_vars(send_response)
    /\ \A t \in TaskIds : SF_vars(RunStep(t))

----------------------------------------------------------------------------
(* The synchronous request POST /pdf/analyze, lines 302-333.  It runs the  *)
(* same extract_images_from_pdf_and_analyze with task_id = None: every     *)
(* `if task_id` of lines 130, 138, 141, 170, 173 and 201 is false.  Any    *)
(* exception ends the request with status 400 (line 331-333).  One         *)
(* synchronous request is in progress at a time.                           *)

\* The request ends with an answer.
SyncAnswer(code) ==
    /\ run' = [run EXCEPT ![SyncRun] = Locals("none")]
    /\ running' = 0
    /\ response' = Response("analyze", 0, code)

\* analyze_pdf registering a task for the request, as analyze_pdf_async does.
analyze_pdf_Registers ==
    /\ LoopFree
    /\ run[SyncRun].pc = "none"
    /\ UNCHANGED <<running, response>>
    /\ processing_tasks' =
           [x \in DOMAIN processing_tasks \cup {0} |->
               IF x = 0
               THEN [task_id |-> 0, status |-> "processing", progress |-> 0,
                     current_step |-> <<"start">>, result |-> None, error |-> None,
                     filename |-> "file.pdf", model |-> "gemma3:4b"]
               ELSE processing_tasks[x]]
    /\ run' = [run EXCEPT ![SyncRun] = Locals("reading")]

\* The handler up to the await of pdf_file.read(), lines 302-316 and 121-123.
analyze_pdf ==
    /\ LoopFree
    /\ run[SyncRun].pc = "none"
    /\ UNCHANGED <<processing_tasks, running>>
    /\ \E isPdf \in BOOLEAN :
          IF ~isPdf
          THEN /\ response' = Response("analyze", 0, 400)
               /\ UNCHANGED run
          ELSE /\ run' = [run EXCEPT ![SyncRun] = Locals("reading")]
               /\ UNCHANGED response

\* Lines 123-135 with task_id = None.
analyze_pdf_open_document ==
    /\ LoopFree
    /\ run[SyncRun].pc = "reading"
    /\ UNCHANGED processing_tasks
    /\ \E opens \in BOOLEAN :
          IF ~opens
          THEN SyncAnswer(400)
          ELSE \E page_count \in 1 .. MaxPages :
                  /\ run' = [run EXCEPT ![SyncRun] =
                                [Locals("page") EXCEPT !.page_count = page_count]]
                  /\ running' = SyncRun
                  /\ UNCHANGED response

\* Lines 136-166 with task_id = None.
analyze_pdf_extract_page ==
    /\ running = SyncRun
    /\ run[SyncRun].pc = "page"
    /\ run[SyncRun].page_num < run[SyncRun].page_count
    /\ UNCHANGED <<processing_tasks, running, response>>
    /\ \E n \in 0 .. (MaxImages - run[SyncRun].all_text.images) :
          run' = [run EXCEPT ![SyncRun] =
                     [run[SyncRun] EXCEPT !.pc = IF n > 0 THEN "image" ELSE "page",
                                          !.page_num = @ + 1,
                                          !.image_list = n,
                                          !.img_index = 0,
                                          !.all_text.pages = @ + 1,
                                          !.all_text.images = @ + n]]

\* Lines 168-187 and 192-195 with task_id = None.
analyze_pdf_extract_image ==
    /\ running = SyncRun
    /\ run[SyncRun].pc = "image"
    /\ UNCHANGED <<processing_tasks, response>>
    /\ \E kind \in {"rgb", "cmyk", "error"} :
          /\ run' = [run EXCEPT ![SyncRun] =
                        CASE kind = "rgb" -> [run[SyncRun] EXCEPT !.pc = "describing"]
                          [] kind = "cmyk" -> ImageDone(run[SyncRun])
                          [] kind = "error" ->
                                ImageDone([run[SyncRun] EXCEPT !.all_text.failed = @ + 1])]
          /\ running' = IF kind = "rgb" THEN 0 ELSE SyncRun

\* The description call of the request returns, lines 213-223 and 190-192.
analyze_pdf_image_described ==
    /\ LoopFree
    /\ run[SyncRun].pc = "describing"
    /\ UNCHANGED <<processing_tasks, response>>
    /\ running' = SyncRun
    /\ \E ok \in BOOLEAN :
          run' = [run EXCEPT ![SyncRun] =
                     ImageDone(IF ok
                               THEN [run[SyncRun] EXCEPT !.all_text.described = @ + 1]
                               ELSE [run[SyncRun] EXCEPT !.all_text.failed = @ + 1])]

\* Lines 199-205 with task_id = None, the test for an empty text of line 318
\* and the start of the summarization call, line 322.
analyze_pdf_start_analysis ==
    /\ running = SyncRun
    /\ run[SyncRun].pc = "page"
    /\ run[SyncRun].page_num = run[SyncRun].page_count
    /\ UNCHANGED processing_tasks
    /\ IF run[SyncRun].all_text.pages = 0
       THEN SyncAnswer(400)
       ELSE /\ run' = [run EXCEPT ![SyncRun].pc = "summarizing", ![SyncRun].page_num = 0]
            /\ running' = 0
            /\ UNCHANGED response

\* The summarization call of the request returns, lines 322-333.
analyze_pdf_answer ==
    /\ LoopFree
    /\ run[SyncRun].pc = "summarizing"
    /\ UNCHANGED processing_tasks
    /\ \E ok \in BOOLEAN : SyncAnswer(IF ok THEN 200 ELSE 400)

NextSync ==
    \/ Next
    \/ analyze_pdf
    \/ analyze_pdf_open_document
    \/ analyze_pdf_extract_page
    \/ analyze_pdf_extract_image
    \/ analyze_pdf_image_described
    \/ analyze_pdf_start_analysis
    \/ analyze_pdf_answer

\* The asynchronous core together with synchronous requests.
SpecSync == Init /\ [][NextSync]_vars

----------------------------------------------------------------------------
(* The claims.                                                             *)

Present(t) == t \in DOMAIN processing_tasks
PresentAfter(t) == t \in DOMAIN processing_tasks'

\* C1: once a task's status is completed, failed or cancelled, no step
\* changes that status; the task can only be deleted.
C1_TerminalStatusIsFinal ==
    [][\A t \in TaskIds :
          (Present(t) /\ processing_tasks[t].status \in Terminal /\ PresentAfter(t))
          => processing_tasks'[t].status = processing_tasks[t].status]_vars

\* C2: a run that reaches its first cancellation checkpoint (the check before
\* page 1) with its task already cancelled stops there, and the task is left
\* cancelled with no result and no error.
C2_EarlyCancelEndsCancelled ==
    [][\A t \in TaskIds :
          (running = t /\ run[t].pc = "page" /\ run[t].page_num = 0 /\ IsCancelled(t))
          => /\ run'[t].pc = "returned"
             /\ PresentAfter(t)
             /\ processing_tasks'[t].status = "cancelled"
             /\ processing_tasks'[t].result = None
             /\ processing_tasks'[t].error = None]_vars

\* C3: while a task is processing, no write of its progress lowers it.
C3_ProgressNeverDecreases ==
    [][\A t \in TaskIds :
          (/\ Present(t) /\ PresentAfter(t)
           /\ processing_tasks[t].status = "processing"
           /\ processing_tasks'[t].status = "processing")
          => processing_tasks'[t].progress >= processing_tasks[t].progress]_vars

C5_UpdateIsNoOpWhenTerminalOrAbsent ==
    [][\A t \in TaskIds :
          /\ (/\ Present(t) /\ PresentAfter(t)
              /\ processing_tasks[t].status \in Terminal
              /\ processing_tasks'[t].status = processing_tasks[t].status)
             => /\ processing_tasks'[t].progress = processing_tasks[t].progress
                /\ processing_tasks'[t].current_step = processing_tasks[t].current_step
          /\ (run[t].pc \notin {"none", "raised"} /\ ~Present(t))
             => (~PresentAfter(t) /\ run'[t].pc # "raised")]_vars

\* C6: cancel of a processing task sets its status to cancelled; cancel of a
\* completed, failed or cancelled task answers 400 and changes nothing.
C6_CancelByStatus ==
    [][\A id \in RequestIds :
          (/\ response = NoResponse
           /\ response'.op = "cancel" /\ response'.task_id = id
           /\ Present(id))
          => IF processing_tasks[id].status = "processing"
             THEN /\ response'.code = 200
                  /\ PresentAfter(id)
                  /\ processing_tasks'[id].status = "cancelled"
             ELSE /\ response'.code = 400
                  /\ UNCHANGED <<processing_tasks, run, running>>]_vars

\* A cancel of a task in a terminal status has been answered.
C6_Witness ==
    /\ response.op = "cancel" /\ response.code = 400
    /\ Present(response.task_id)
    /\ processing_tasks[response.task_id].status \in Terminal

\* C7: get, cancel and delete of an id that is not in the registry answer 404
\* and leave the registry as it was.
C7_UnknownIdIs404 ==
    [][\A id \in RequestIds :
          (/\ response = NoResponse
           /\ response'.op \in {"status", "cancel", "delete"}
           /\ response'.task_id = id
           /\ ~Present(id))
          => /\ response'.code = 404
             /\ UNCHANGED <<processing_tasks, run, running>>]_vars

\* A delete of an unknown id has been answered while the registry holds a task.
C7_Witness ==
    /\ response.op = "delete" /\ response.code = 404
    /\ ~Present(response.task_id)
    /\ DOMAIN processing_tasks # {}

\* C8: when the summarization call of a task in the registry does not end in
\* completion, the same step leaves the task failed, with the summarization
\* error, no result and progress 0; and a failed task always shows an error,
\* no result and progress 0.
C8_SummarizeFailureIsFailed ==
    [][\A t \in TaskIds :
          /\ (/\ run[t].pc = "summarizing" /\ run'[t].pc # "summarizing"
              /\ Present(t))
             => /\ PresentAfter(t)
                /\ \/ processing_tasks'[t].status = "completed"
                   \/ /\ processing_tasks'[t].status = "failed"
                      /\ processing_tasks'[t].error = Some(ErrSummarize)
          /\ (PresentAfter(t) /\ processing_tasks'[t].status = "failed")
             => /\ processing_tasks'[t].error # None
                /\ processing_tasks'[t].error # Some("")
                /\ processing_tasks'[t].result = None
                /\ processing_tasks'[t].progress = 0]_vars

\* A task failed by its summarization call.
C8_Witness ==
    \E t \in TaskIds :
        /\ Present(t)
        /\ processing_tasks[t].status = "failed"
        /\ processing_tasks[t].error = Some(ErrSummarize)
        /\ processing_tasks[t].progress = 0

\* C9: a task completed without any successful description call holds a
\* failure-noted section for every image of its document, and a marker for
\* every page.
C9_EveryImageFailureNoted ==
    \A t \in TaskIds :
        (/\ Present(t)
         /\ processing_tasks[t].status = "completed"
         /\ processing_tasks[t].result[1].text_content.described = 0)
        => /\ processing_tasks[t].result[1].text_content.failed
                = processing_tasks[t].result[1].text_content.images
           /\ processing_tasks[t].result[1].text_content.pages
                = processing_tasks[t].result[1].page_count

\* C10: a task has a result exactly when its status is completed.
C10_ResultIffCompleted ==
    \A t \in TaskIds :
        Present(t) =>
            (processing_tasks[t].result # None
                <=> processing_tasks[t].status = "completed")

\* A completed task with its result.
C10_Witness ==
    \E t \in TaskIds :
        /\ Present(t)
        /\ processing_tasks[t].status = "completed"
        /\ processing_tasks[t].result # None

\* C11: a task in the registry has an error only when its status is failed.
C11_ErrorOnlyWhenFailed ==
    \A t \in TaskIds :
        (Present(t) /\ processing_tasks[t].error # None)
            => processing_tasks[t].status = "failed"

\* A task cancelled during its run and then failed by the run, with the
\* cancellation as its error.
C11_Witness ==
    \E t \in TaskIds :
        /\ Present(t)
        /\ processing_tasks[t].status = "failed"
        /\ processing_tasks[t].error = Some(ErrCancelled)

\* C12: a successful delete removes a task that was in the registry; a task
\* that was created and is no longer in the registry is in it after no step,
\* whatever its run writes; and a status request for it is answered 404.
C12_DeleteIsPermanent ==
    [][\A t \in TaskIds :
          /\ (response = NoResponse /\ response' = Response("delete", t, 200))
             => (Present(t) /\ ~PresentAfter(t))
          /\ (run[t].pc # "none" /\ ~Present(t))
             => /\ ~PresentAfter(t)
                /\ (response = NoResponse /\ response'.op = "status"
                    /\ response'.task_id = t) => response'.code = 404]_vars

\* The run of a deleted task has tried to write to the registry and ended
\* with the KeyError, and the task is still absent.
C12_Witness ==
    \E t \in TaskIds : run[t].pc = "raised" /\ ~Present(t)

\* C13: no step of a synchronous request, from its arrival to its answer,
\* changes the registry or the background run of any task.
C13_SyncLeavesRegistryAlone ==
    [][(\/ run'[SyncRun] # run[SyncRun]
        \/ (response = NoResponse /\ response'.op = "analyze"))
       => /\ processing_tasks' = processing_tasks
          /\ \A t \in TaskIds : run'[t] = run[t]]_vars

\* A synchronous request has been answered with success while the registry
\* holds a task whose run is under way.
C13_Witness ==
    /\ response = Response("analyze", 0, 200)
    /\ \E t \in TaskIds :
          /\ Present(t)
          /\ processing_tasks[t].status = "processing"
          /\ processing_tasks[t].progress > 0

\* C14: while a task for a 3-page document without images is neither
\* cancelled, deleted nor failed, its progress is 0 until the document is
\* open, no step lowers it, it stays below 100 while the task is processing,
\* and the step that completes the task takes it from a value strictly
\* between 0 and 100 to 100 with result.page_count = 3.
C14_ThreePagesNoImages ==
    [][\A t \in TaskIds :
          (/\ Present(t) /\ PresentAfter(t)
           /\ processing_tasks[t].status = "processing"
           /\ processing_tasks'[t].status \in {"processing", "completed"}
           /\ run[t].page_count = 3 \/ run'[t].page_count = 3
           /\ run[t].all_text.images = 0 /\ run'[t].all_text.images = 0)
          => /\ processing_tasks'[t].progress >= processing_tasks[t].progress
             /\ run[t].page_count = 0 => processing_tasks[t].progress = 0
             /\ processing_tasks'[t].status = "processing"
                => processing_tasks'[t].progress \in 0 .. 99
             /\ processing_tasks'[t].status = "completed"
                => /\ processing_tasks[t].progress \in 1 .. 99
                   /\ processing_tasks'[t].progress = 100
                   /\ processing_tasks'[t].result[1].page_count = 3
                   /\ processing_tasks'[t].result[1].text_content.pages = 3]_vars

\* A task completed for a 3-page document without images.
C14_Witness ==
    \E t \in TaskIds :
        /\ Present(t)
        /\ processing_tasks[t].status = "completed"
        /\ processing_tasks[t].progress = 100
        /\ processing_tasks[t].result[1].page_count = 3
        /\ processing_tasks[t].result[1].text_content.images = 0

C16_CancelWritesStatusOnly ==
    [][\A t \in TaskIds :
          (response = NoResponse /\ response' = Response("cancel", t, 200))
          => processing_tasks' =
                 [processing_tasks EXCEPT ![t].status = "cancelled"]]_vars

\* C16 amended: a successful cancel changes the status and the current_step
\* of its task and nothing else in the registry; a step that changes a
\* task's progress is a step of the task's run, and a step that changes its
\* current_step is a step of its run or a cancel.
C16_CancelWritesStatusAndStep ==
    [][\A t \in TaskIds :
          /\ (response = NoResponse /\ response' = Response("cancel", t, 200))
             => /\ Present(t)
                /\ processing_tasks' =
                       [processing_tasks EXCEPT ![t].status = "cancelled",
                                                ![t].current_step = <<"cancelled">>]
                /\ run' = run
          /\ (Present(t) /\ PresentAfter(t))
             => /\ processing_tasks'[t].progress # processing_tasks[t].progress
                   => run'[t] # run[t]
                /\ processing_tasks'[t].current_step # processing_tasks[t].current_step
                   => \/ run'[t] # run[t]
                      \/ response' = Response("cancel", t, 200)]_vars

\* A cancel has been answered with success for a task whose run had made
\* progress: the task shows the cancel's step and the run's progress.
C16_Witness ==
    \E t \in TaskIds :
        /\ response = Response("cancel", t, 200)
        /\ Present(t)
        /\ processing_tasks[t].status = "cancelled"
        /\ processing_tasks[t].current_step = <<"cancelled">>
        /\ processing_tasks[t].progress > 0

\* The run of task t is in the loop over pages and images.
InPagePhase(t) == Present(t) /\ run[t].pc \in {"page", "image", "describing"}

C18_RunEnds ==
    \A t \in TaskIds :
        (run[t].pc = "queued")
            ~> (/\ run[t].pc \in {"returned", "raised"}
                /\ Present(t) => processing_tasks[t].status \in Terminal)

\* The run of a task has ended and the task is in a terminal status.
C18_Witness ==
    \E t \in TaskIds :
        /\ run[t].pc = "returned"
        /\ Present(t)
        /\ processing_tasks[t].status \in Terminal

\* C19: a task in the registry shows progress 100 exactly when its status
\* is completed.
C19_HundredIffCompleted ==
    \A t \in TaskIds :
        Present(t) =>
            (processing_tasks[t].progress = 100
                <=> processing_tasks[t].status = "completed")

\* A completed task at progress 100.
C19_Witness ==
    \E t \in TaskIds :
        /\ Present(t)
        /\ processing_tasks[t].status = "completed"
        /\ processing_tasks[t].progress = 100

====
